---- MODULE Spec2Model ----
(***************************************************************************)
(* A model of bevy_resolution's Resolution value type                      *)
(* (src/src/resolutions.rs): its constructors, mutators, scaling operators *)
(* and the free functions over pairs of resolutions.                       *)
(*                                                                         *)
(* Every width, height, ratio and scale component is a Rust f32.  The      *)
(* model computes on IEEE-754 binary32 values: a finite value is           *)
(* (-1)^s * m * 2^e with a 24-bit significand, arithmetic rounds to        *)
(* nearest (ties to even), division by zero gives an infinity or a NaN,    *)
(* and == is the f32 comparison (NaN differs from everything, -0 == 0).    *)
(* TLC's integers are 32 bits wide, so products and quotients of           *)
(* significands are computed limb by limb.                                 *)
(***************************************************************************)
EXTENDS Integers, Sequences, FiniteSets, TLC

(***************************************************************************)
(* binary32                                                                *)
(***************************************************************************)

\* f32: bits of the significand (the hidden bit included)
MantBits == 24
\* f32: exponent of the least significant bit of a subnormal (2^-149)
EMin == -149
\* f32: exponent of the least significant bit of the largest finite value
EMax == 104

Pow2(n) == 2 ^ n

Max(a, b) == IF a >= b THEN a ELSE b
Min(a, b) == IF a <= b THEN a ELSE b

\* a finite value (-1)^s * m * 2^e, an infinity, the NaN
Fin(s, e, m) == [k |-> "fin", s |-> s, e |-> e, m |-> m]
Inf(s) == [k |-> "inf", s |-> s, e |-> 0, m |-> 0]
NaN == [k |-> "nan", s |-> 0, e |-> 0, m |-> 0]
Zero(s) == Fin(s, EMin, 0)

IsNaN(a) == a.k = "nan"
IsInf(a) == a.k = "inf"
IsFinite(a) == a.k = "fin"
IsZero(a) == a.k = "fin" /\ a.m = 0

\* number of bits of M, 0 < M < 2^31
BitLen(M) ==
  IF Pow2(MantBits - 1) <= M /\ M < Pow2(MantBits) THEN MantBits
  ELSE CHOOSE n \in 1..31 : Pow2(n - 1) <= M /\ (n = 31 \/ M < Pow2(n))

Xor(s, t) == (s + t) % 2

\* The f32 nearest to (-1)^s * (M + f) * 2^e, ties to even, where 0 <= M < 2^31
\* and 0 <= f < 1 with f # 0 iff sticky: the rounding step of every operation.
RoundPack(s, e, M, sticky) ==
  IF M = 0 THEN Zero(s)
  ELSE
    LET L == BitLen(M)
        shift == Max(L - MantBits, EMin - e)
    IN IF shift <= 0
       THEN \* exact: normalise the significand to 24 bits, or to EMin
            LET d == Min(MantBits - L, e - EMin)
            IN IF e - d > EMax THEN Inf(s) ELSE Fin(s, e - d, M * Pow2(d))
       ELSE IF shift > 31 THEN Zero(s)
       ELSE
         LET half == Pow2(shift - 1)
             top == M \div half
             q == top \div 2
             rbit == top % 2
             rest == (M % half) # 0 \/ sticky
             up == IF rbit = 1 /\ (rest \/ q % 2 = 1) THEN 1 ELSE 0
             m1 == q + up
             carry == m1 = Pow2(MantBits)
             m2 == IF carry THEN Pow2(MantBits - 1) ELSE m1
             e2 == IF carry THEN e + shift + 1 ELSE e + shift
         IN IF m2 = 0 THEN Zero(s)
            ELSE IF e2 > EMax THEN Inf(s)
            ELSE Fin(s, e2, m2)

\* an integer literal n as f32 (|n| < 2^31), and n * 2^e
FromInt(n) == IF n < 0 THEN RoundPack(1, 0, 0 - n, FALSE) ELSE RoundPack(0, 0, n, FALSE)
Scaled(n, e) == RoundPack(0, e, n, FALSE)

\* a finite non-zero value with its significand shifted up to 24 bits
\* (a subnormal's exponent goes below EMin)
NormM(a) == a.m * Pow2(MantBits - BitLen(a.m))
NormE(a) == a.e - (MantBits - BitLen(a.m))

\* a * b in f32
FMul(a, b) ==
  IF IsNaN(a) \/ IsNaN(b) THEN NaN
  ELSE IF (IsInf(a) /\ IsZero(b)) \/ (IsZero(a) /\ IsInf(b)) THEN NaN
  ELSE IF IsInf(a) \/ IsInf(b) THEN Inf(Xor(a.s, b.s))
  ELSE IF IsZero(a) \/ IsZero(b) THEN Zero(Xor(a.s, b.s))
  ELSE
    LET ma == NormM(a)
        mb == NormM(b)
        a1 == ma \div 4096
        a0 == ma % 4096
        b1 == mb \div 4096
        b0 == mb % 4096
        mid == a1 * b0 + a0 * b1
        t == (mid % 4096) * 4096 + a0 * b0
        hi == a1 * b1 + (mid \div 4096) + (t \div Pow2(24))
        lo == t % Pow2(24)
        \* the product is hi * 2^24 + lo, 2^46 <= product < 2^48
        M == hi * 64 + (lo \div Pow2(18))
    IN RoundPack(Xor(a.s, b.s), NormE(a) + NormE(b) + 18, M, (lo % Pow2(18)) # 0)

\* a / b in f32
FDiv(a, b) ==
  IF IsNaN(a) \/ IsNaN(b) THEN NaN
  ELSE IF (IsInf(a) /\ IsInf(b)) \/ (IsZero(a) /\ IsZero(b)) THEN NaN
  ELSE IF IsInf(a) \/ IsZero(b) THEN Inf(Xor(a.s, b.s))
  ELSE IF IsInf(b) \/ IsZero(a) THEN Zero(Xor(a.s, b.s))
  ELSE
    LET ma == NormM(a)
        mb == NormM(b)
        \* long division, 7 quotient bits at a time: ma / mb to 28 binary places
        q0 == ma \div mb
        r0 == ma % mb
        q1 == (r0 * 128) \div mb
        r1 == (r0 * 128) % mb
        q2 == (r1 * 128) \div mb
        r2 == (r1 * 128) % mb
        q3 == (r2 * 128) \div mb
        r3 == (r2 * 128) % mb
        q4 == (r3 * 128) \div mb
        r4 == (r3 * 128) % mb
        Q == (((q0 * 128 + q1) * 128 + q2) * 128 + q3) * 128 + q4
    IN RoundPack(Xor(a.s, b.s), NormE(a) - NormE(b) - 28, Q, r4 # 0)

\* a == b and a != b on f32
FEq(a, b) ==
  IF IsNaN(a) \/ IsNaN(b) THEN FALSE
  ELSE IF IsZero(a) /\ IsZero(b) THEN TRUE
  ELSE a = b
FNe(a, b) == ~FEq(a, b)

\* |a| < |b| for values that are not NaN
MagLt(a, b) ==
  IF IsInf(a) THEN FALSE
  ELSE IF IsInf(b) THEN TRUE
  ELSE a.e < b.e \/ (a.e = b.e /\ a.m < b.m)

\* a < b on f32
FLt(a, b) ==
  IF IsNaN(a) \/ IsNaN(b) THEN FALSE
  ELSE IF IsZero(a) /\ IsZero(b) THEN FALSE
  ELSE IF a.s = 1 /\ b.s = 0 THEN TRUE
  ELSE IF a.s = 0 /\ b.s = 1 THEN FALSE
  ELSE IF a.s = 0 THEN MagLt(a, b)
  ELSE MagLt(b, a)

\* a % 1. on f32 (fmod: exact, the sign of a)
FRem1(a) ==
  IF ~IsFinite(a) THEN NaN
  ELSE IF a.e >= 0 THEN Zero(a.s)
  ELSE IF 0 - a.e >= MantBits THEN a
  ELSE RoundPack(a.s, a.e, a.m % Pow2(0 - a.e), FALSE)

\* a.ceil() on f32
FCeil(a) ==
  IF ~IsFinite(a) \/ a.m = 0 \/ a.e >= 0 THEN a
  ELSE
    LET k == 0 - a.e
        ip == IF k > 30 THEN 0 ELSE a.m \div Pow2(k)
        frac == IF k > 30 THEN a.m ELSE a.m % Pow2(k)
    IN IF a.s = 0
       THEN RoundPack(0, 0, IF frac # 0 THEN ip + 1 ELSE ip, FALSE)
       ELSE RoundPack(1, 0, ip, FALSE)

\* a u32, held as two 16-bit limbs: hi * 2^16 + lo
U32(hi, lo) == [hi |-> hi, lo |-> lo]
U32_MAX == U32(65535, 65535)

\* a as u32: the cast truncates and saturates; NaN gives 0
CastU32(a) ==
  IF IsNaN(a) THEN U32(0, 0)
  ELSE IF a.s = 1 THEN U32(0, 0)
  ELSE IF IsInf(a) THEN U32_MAX
  ELSE IF a.m = 0 THEN U32(0, 0)
  ELSE IF a.e >= 0
  THEN IF a.e + BitLen(a.m) > 32 THEN U32_MAX
       ELSE LET mh == a.m \div 65536
                ml == (a.m % 65536) * Pow2(a.e)
            IN U32(mh * Pow2(a.e) + (ml \div 65536), ml % 65536)
  ELSE LET v == IF 0 - a.e > 30 THEN 0 ELSE a.m \div Pow2(0 - a.e)
       IN U32(v \div 65536, v % 65536)

\* the decimal digits of a u32, as "{}" formats it
DigitChar(d) ==
  CASE d = 0 -> "0" [] d = 1 -> "1" [] d = 2 -> "2" [] d = 3 -> "3" [] d = 4 -> "4"
    [] d = 5 -> "5" [] d = 6 -> "6" [] d = 7 -> "7" [] d = 8 -> "8" [] d = 9 -> "9"

RECURSIVE DecimalTail(_)
DecimalTail(u) ==
  IF u.hi = 0 /\ u.lo = 0 THEN <<>>
  ELSE LET t == (u.hi % 10) * 65536 + u.lo
       IN Append(DecimalTail(U32(u.hi \div 10, t \div 10)), DigitChar(t % 10))

Decimal(u) == IF u.hi = 0 /\ u.lo = 0 THEN <<"0">> ELSE DecimalTail(u)

(***************************************************************************)
(* Resolution                                                              *)
(***************************************************************************)

\* enum AspectRatioMode { Dynamic, Set(AspectRatio) }; an AspectRatio wraps one
\* f32 and ratio() returns it, so the model holds the f32 itself
Dynamic == [tag |-> "Dynamic"]
Set(ar) == [tag |-> "Set", ar |-> ar]
is_dynamic(mode) == mode.tag = "Dynamic"

\* struct Resolution { width, height, aspect_ratio }
Resolution(width, height, mode) == [width |-> width, height |-> height, aspect_ratio |-> mode]

\* what a call gives back: a value, a panic, or an Option
Ok(v) == [tag |-> "ok", val |-> v]
Panic == [tag |-> "panic"]
Some(v) == [tag |-> "some", val |-> v]
None == [tag |-> "none"]

\* bevy_math's constants: AspectRatio(16.0 / 9.0), (4.0 / 3.0), (21.0 / 9.0)
SIXTEEN_NINE == FDiv(FromInt(16), FromInt(9))
FOUR_THREE == FDiv(FromInt(4), FromInt(3))
ULTRAWIDE == FDiv(FromInt(21), FromInt(9))

\* AspectRatio::try_new(width, height).unwrap(): an error, so a panic, when a
\* side is zero, infinite or NaN; otherwise the ratio width / height
try_new_unwrap(width, height) ==
  IF IsZero(width) \/ IsZero(height) THEN Panic
  ELSE IF IsInf(width) \/ IsInf(height) THEN Panic
  ELSE IF IsNaN(width) \/ IsNaN(height) THEN Panic
  ELSE Ok(FDiv(width, height))

\* derived PartialEq of AspectRatioMode and of Resolution
ModeEq(a, b) ==
  IF is_dynamic(a) \/ is_dynamic(b) THEN is_dynamic(a) /\ is_dynamic(b)
  ELSE FEq(a.ar, b.ar)
ResEq(a, b) ==
  FEq(a.width, b.width) /\ FEq(a.height, b.height) /\ ModeEq(a.aspect_ratio, b.aspect_ratio)

\* from_height with a fault: the ratio is not stored
from_height_dynamic(height, ratio) == Resolution(FMul(height, ratio), height, Dynamic)

new(width, height) == Resolution(width, height, Dynamic)

from_height(height, ratio) ==
  Resolution(FMul(height, ratio), height, Set(ratio))

from_width(width, ratio) ==
  Resolution(width, FDiv(width, ratio), Set(ratio))

\* aspect_ratio with a fault: the ratio of a Dynamic resolution is width / height
\* without the try_new test
aspect_ratio_unchecked(self) ==
  IF is_dynamic(self.aspect_ratio) THEN Ok(FDiv(self.width, self.height))
  ELSE Ok(self.aspect_ratio.ar)

\* self.aspect_ratio(): Ok(ratio) or Panic
aspect_ratio(self) ==
  IF is_dynamic(self.aspect_ratio) THEN try_new_unwrap(self.width, self.height)
  ELSE Ok(self.aspect_ratio.ar)

\* change_height with a fault: the width is recomputed without the width / height
\* test
change_height_always_recomputes(self, height, maintain_aspect_ratio) ==
  IF maintain_aspect_ratio
  THEN LET ar == aspect_ratio(self)
       IN IF ar.tag = "panic" THEN Panic
          ELSE Ok(Resolution(FMul(height, ar.val), height, self.aspect_ratio))
  ELSE Ok(Resolution(self.width, height, Dynamic))

\* change_height with a fault: maintain = false leaves the mode as it was
change_height_keeps_mode(self, height, maintain_aspect_ratio) ==
  IF maintain_aspect_ratio
  THEN LET ar == aspect_ratio(self)
       IN IF ar.tag = "panic" THEN Panic
          ELSE LET w == IF FNe(FDiv(self.width, height), ar.val)
                        THEN FMul(height, ar.val)
                        ELSE self.width
               IN Ok(Resolution(w, height, self.aspect_ratio))
  ELSE Ok(Resolution(self.width, height, self.aspect_ratio))

\* self.change_height(height, maintain_aspect_ratio): Ok(resolution) or Panic
change_height(self, height, maintain_aspect_ratio) ==
  IF maintain_aspect_ratio
  THEN LET ar == aspect_ratio(self)
       IN IF ar.tag = "panic" THEN Panic
          ELSE LET w == IF FNe(FDiv(self.width, height), ar.val)
                        THEN FMul(height, ar.val)
                        ELSE self.width
               IN Ok(Resolution(w, height, self.aspect_ratio))
  ELSE Ok(Resolution(self.width, height, Dynamic))

\* self.change_width(width, maintain_aspect_ratio): Ok(resolution) or Panic.
\* The height is recomputed from self.width, the width before the change.
change_width(self, width, maintain_aspect_ratio) ==
  IF maintain_aspect_ratio
  THEN LET ar == aspect_ratio(self)
       IN IF ar.tag = "panic" THEN Panic
          ELSE LET h == IF FNe(FDiv(width, self.height), ar.val)
                        THEN FDiv(self.width, ar.val)
                        ELSE self.height
               IN Ok(Resolution(width, h, self.aspect_ratio))
  ELSE Ok(Resolution(width, self.height, Dynamic))

\* change_ratio with a fault: the width is not recomputed
change_ratio_keeps_width(self, ratio) ==
  Resolution(self.width, self.height, Set(ratio))

\* self.change_ratio(ratio)
change_ratio(self, ratio) ==
  Resolution(FMul(self.height, ratio), self.height, Set(ratio))

\* scale_and_keep_aspect_ratio with a fault: the result's mode is Dynamic
scale_and_keep_drops_mode(self, scalar) ==
  LET ar == aspect_ratio(self)
  IN IF ar.tag = "panic" THEN Panic
     ELSE IF FNe(FDiv(FMul(self.width, scalar.x), FMul(self.height, scalar.y)), ar.val)
     THEN None
     ELSE Some(Resolution(FMul(self.width, scalar.x), FMul(self.height, scalar.y), Dynamic))

\* self.scale_and_keep_aspect_ratio(scalar): Some(resolution), None or Panic
scale_and_keep_aspect_ratio(self, scalar) ==
  LET ar == aspect_ratio(self)
  IN IF ar.tag = "panic" THEN Panic
     ELSE IF FNe(FDiv(FMul(self.width, scalar.x), FMul(self.height, scalar.y)), ar.val)
     THEN None
     ELSE Some(Resolution(FMul(self.width, scalar.x), FMul(self.height, scalar.y),
                          self.aspect_ratio))

\* scale with a fault: the mode is kept whatever the ratio after the scale
scale_keeps_mode(self, scalar) ==
  Resolution(FMul(self.width, scalar.x), FMul(self.height, scalar.y), self.aspect_ratio)

\* self.scale(scalar); the || does not evaluate aspect_ratio() on a Dynamic self
scale(self, scalar) ==
  LET ratio == FDiv(FMul(self.width, scalar.x), FMul(self.height, scalar.y))
  IN IF is_dynamic(self.aspect_ratio) \/ FEq(self.aspect_ratio.ar, ratio)
     THEN Resolution(FMul(self.width, scalar.x), FMul(self.height, scalar.y),
                     self.aspect_ratio)
     ELSE Resolution(FMul(self.width, scalar.x), FMul(self.height, scalar.y), Dynamic)

\* has_integer_scale with a fault: the quotient is always to.height / from.height
has_integer_scale_one_way(to, from) ==
  LET fr == aspect_ratio(from)
      tr == aspect_ratio(to)
  IN IF fr.tag = "panic" \/ tr.tag = "panic" THEN Panic
     ELSE IF FNe(fr.val, tr.val) THEN Ok(FALSE)
     ELSE Ok(FEq(FRem1(FDiv(to.height, from.height)), Zero(0)))

\* has_integer_scale(to, from): Ok(bool) or Panic
has_integer_scale(to, from) ==
  LET fr == aspect_ratio(from)
      tr == aspect_ratio(to)
  IN IF fr.tag = "panic" \/ tr.tag = "panic" THEN Panic
     ELSE IF FNe(fr.val, tr.val) THEN Ok(FALSE)
     ELSE IF FLt(from.height, to.height)
     THEN Ok(FEq(FRem1(FDiv(to.height, from.height)), Zero(0)))
     ELSE Ok(FEq(FRem1(FDiv(from.height, to.height)), Zero(0)))

Vec2(x, y) == [x |-> x, y |-> y]
splat(v) == Vec2(v, v)
\* Vec2's PartialEq
Vec2Eq(a, b) == FEq(a.x, b.x) /\ FEq(a.y, b.y)

\* get_scale_factor with a fault: the factor of equal ratios is to over from
get_scale_factor_inverted(to, from) ==
  LET fr == aspect_ratio(from)
      tr == aspect_ratio(to)
  IN IF fr.tag = "panic" \/ tr.tag = "panic" THEN Panic
     ELSE IF FNe(fr.val, tr.val)
     THEN Ok(Vec2(FDiv(from.width, to.width), FDiv(from.height, to.height)))
     ELSE Ok(splat(FDiv(to.height, from.height)))

\* get_scale_factor(to, from): Ok(Vec2) or Panic
get_scale_factor(to, from) ==
  LET fr == aspect_ratio(from)
      tr == aspect_ratio(to)
  IN IF fr.tag = "panic" \/ tr.tag = "panic" THEN Panic
     ELSE IF FNe(fr.val, tr.val)
     THEN Ok(Vec2(FDiv(from.width, to.width), FDiv(from.height, to.height)))
     ELSE Ok(splat(FDiv(from.height, to.height)))

fits_aspect_ratio(height, ratio) ==
  FEq(FRem1(FMul(height, ratio)), Zero(0))

\* resolution_fits_aspect_ratio with a fault: the width is tested, not the height
resolution_fits_by_width(resolution, ratio) ==
  fits_aspect_ratio(resolution.width, ratio)

resolution_fits_aspect_ratio(resolution, ratio) ==
  fits_aspect_ratio(resolution.height, ratio)

\* self.can_fit(&aspect_ratio)
can_fit(self, ratio) == resolution_fits_aspect_ratio(self, ratio)

\* a glam UVec2
UVec2(x, y) == [x |-> x, y |-> y]

\* Vec2::from(resolution)
Vec2_from(value) == Vec2(value.width, value.height)

\* UVec2::from with a fault: the cast alone, which truncates
UVec2_from_truncates(value) == UVec2(CastU32(value.width), CastU32(value.height))

\* UVec2::from(resolution)
UVec2_from(value) == UVec2(CastU32(FCeil(value.width)), CastU32(FCeil(value.height)))

\* AspectRatio::from(resolution)
AspectRatio_from(value) == aspect_ratio(value)

\* Display::fmt, the text as its sequence of characters
fmt(self) ==
  LET r == UVec2_from(self)
  IN Decimal(r.x) \o <<" ", "x", " ">> \o Decimal(r.y)

r360p(ratio) == from_height(FromInt(360), ratio)
r480p(ratio) == from_height(FromInt(480), ratio)
r720p(ratio) == from_height(FromInt(720), ratio)
r1080p(ratio) == from_height(FromInt(1080), ratio)
r1440p(ratio) == from_height(FromInt(1440), ratio)

(***************************************************************************)
(* A caller: it constructs a resolution, then calls operations on it.      *)
(***************************************************************************)

\* bound: the number of calls made after the construction
MaxSteps == 2

\* the inputs the caller draws from
Heights == {FromInt(0), FromInt(360), FromInt(480), FromInt(600), FromInt(720)}
Widths == {FromInt(0), FromInt(640), FromInt(1280)}
Ratios == {SIXTEEN_NINE, FOUR_THREE, ULTRAWIDE}
Factors == {FromInt(1), FromInt(2)}
Scalars == {Vec2(x, y) : x \in Factors, y \in Factors}

VARIABLES
  res,    \* the caller's resolution
  other,  \* the second resolution of has_integer_scale and scale_factor
  call,   \* the last call: its name, receiver, arguments and what it returned
  steps   \* calls made since the construction

vars == <<res, other, call, steps>>

\* the calls that construct a resolution
Constructions ==
  {[op |-> "new", width |-> w, height |-> h, out |-> Ok(new(w, h))] :
      w \in Widths, h \in Heights}
  \cup {[op |-> "from_height", height |-> h, ratio |-> r, out |-> Ok(from_height(h, r))] :
      h \in Heights, r \in Ratios}
  \cup {[op |-> "from_width", width |-> w, ratio |-> r, out |-> Ok(from_width(w, r))] :
      w \in Widths, r \in Ratios}

Init ==
  /\ call \in Constructions
  /\ res = call.out.val
  /\ other = res
  /\ steps = 0

\* a panic ends the caller
Running == steps < MaxSteps /\ call.out.tag # "panic"

ChangeHeight(height, maintain) ==
  /\ Running
  /\ LET out == change_height(res, height, maintain)
     IN /\ call' = [op |-> "change_height", recv |-> res, height |-> height,
                    maintain |-> maintain, out |-> out]
        /\ res' = IF out.tag = "ok" THEN out.val ELSE res
  /\ steps' = steps + 1
  /\ UNCHANGED other

ChangeWidth(width, maintain) ==
  /\ Running
  /\ LET out == change_width(res, width, maintain)
     IN /\ call' = [op |-> "change_width", recv |-> res, width |-> width,
                    maintain |-> maintain, out |-> out]
        /\ res' = IF out.tag = "ok" THEN out.val ELSE res
  /\ steps' = steps + 1
  /\ UNCHANGED other

ChangeRatio(ratio) ==
  /\ Running
  /\ call' = [op |-> "change_ratio", recv |-> res, ratio |-> ratio,
              out |-> Ok(change_ratio(res, ratio))]
  /\ res' = change_ratio(res, ratio)
  /\ steps' = steps + 1
  /\ UNCHANGED other

Scale(scalar) ==
  /\ Running
  /\ call' = [op |-> "scale", recv |-> res, scalar |-> scalar, out |-> Ok(scale(res, scalar))]
  /\ res' = scale(res, scalar)
  /\ steps' = steps + 1
  /\ UNCHANGED other

\* on None the caller keeps the resolution it had
ScaleAndKeepAspectRatio(scalar) ==
  /\ Running
  /\ LET out == scale_and_keep_aspect_ratio(res, scalar)
     IN /\ call' = [op |-> "scale_and_keep_aspect_ratio", recv |-> res, scalar |-> scalar,
                    out |-> out]
        /\ res' = IF out.tag = "some" THEN out.val ELSE res
  /\ steps' = steps + 1
  /\ UNCHANGED other

AspectRatio ==
  /\ Running
  /\ call' = [op |-> "aspect_ratio", recv |-> res, out |-> aspect_ratio(res)]
  /\ steps' = steps + 1
  /\ UNCHANGED <<res, other>>

Next ==
  \/ \E h \in Heights, m \in BOOLEAN : ChangeHeight(h, m)
  \/ \E w \in Widths, m \in BOOLEAN : ChangeWidth(w, m)
  \/ \E r \in Ratios : ChangeRatio(r)
  \/ \E s \in Scalars : Scale(s)
  \/ \E s \in Scalars : ScaleAndKeepAspectRatio(s)
  \/ AspectRatio

Spec == Init /\ [][Next]_vars

(***************************************************************************)
(* A caller of the free functions over two constructed resolutions.        *)
(***************************************************************************)

\* the inputs of the free functions
PairHeights == Heights \cup {FromInt(240), FromInt(900)}
PairWidths == Widths \cup {Scaled(3, 30), Scaled(5, 30)}
PairRatios == Ratios

PairConstructions ==
  {[op |-> "new", width |-> w, height |-> h, out |-> Ok(new(w, h))] :
      w \in PairWidths, h \in PairHeights}
  \cup {[op |-> "from_height", height |-> h, ratio |-> r, out |-> Ok(from_height(h, r))] :
      h \in PairHeights, r \in PairRatios}
  \cup {[op |-> "from_width", width |-> w, ratio |-> r, out |-> Ok(from_width(w, r))] :
      w \in PairWidths, r \in PairRatios}
  \cup {[op |-> "r360p", ratio |-> r, out |-> Ok(r360p(r))] : r \in PairRatios}
  \cup {[op |-> "r480p", ratio |-> r, out |-> Ok(r480p(r))] : r \in PairRatios}
  \cup {[op |-> "r720p", ratio |-> r, out |-> Ok(r720p(r))] : r \in PairRatios}
  \cup {[op |-> "r1080p", ratio |-> r, out |-> Ok(r1080p(r))] : r \in PairRatios}
  \cup {[op |-> "r1440p", ratio |-> r, out |-> Ok(r1440p(r))] : r \in PairRatios}

\* the second resolution of a pair comes from new or from_height
PairInit ==
  /\ call \in PairConstructions
  /\ res = call.out.val
  /\ other \in {c.out.val : c \in {d \in PairConstructions : d.op \in {"new", "from_height"}}}
  /\ steps = 0

\* each function is applied once to the inputs drawn
Fresh == steps = 0

\* res.has_integer_scale(&other), which is has_integer_scale(res, other)
HasIntegerScale ==
  /\ Fresh
  /\ call' = [op |-> "has_integer_scale", recv |-> res, target |-> other,
              out |-> has_integer_scale(res, other)]
  /\ steps' = steps + 1
  /\ UNCHANGED <<res, other>>

\* res.scale_factor(&other), which is get_scale_factor(res, other)
ScaleFactor ==
  /\ Fresh
  /\ call' = [op |-> "scale_factor", recv |-> res, target |-> other,
              out |-> get_scale_factor(res, other)]
  /\ steps' = steps + 1
  /\ UNCHANGED <<res, other>>

CanFit(ratio) ==
  /\ Fresh
  /\ call' = [op |-> "can_fit", recv |-> res, ratio |-> ratio,
              out |-> Ok(can_fit(res, ratio))]
  /\ steps' = steps + 1
  /\ UNCHANGED <<res, other>>

FitsAspectRatio(height, ratio) ==
  /\ Fresh
  /\ call' = [op |-> "fits_aspect_ratio", recv |-> res, height |-> height, ratio |-> ratio,
              out |-> Ok(fits_aspect_ratio(height, ratio))]
  /\ steps' = steps + 1
  /\ UNCHANGED <<res, other>>

\* let v: Vec2 = res.into()
IntoVec2 ==
  /\ Fresh
  /\ call' = [op |-> "into_vec2", recv |-> res, out |-> Ok(Vec2_from(res))]
  /\ steps' = steps + 1
  /\ UNCHANGED <<res, other>>

\* let v: UVec2 = res.into()
IntoUVec2 ==
  /\ Fresh
  /\ call' = [op |-> "into_uvec2", recv |-> res, out |-> Ok(UVec2_from(res))]
  /\ steps' = steps + 1
  /\ UNCHANGED <<res, other>>

\* let r: AspectRatio = res.into()
IntoAspectRatio ==
  /\ Fresh
  /\ call' = [op |-> "into_aspect_ratio", recv |-> res, out |-> AspectRatio_from(res)]
  /\ steps' = steps + 1
  /\ UNCHANGED <<res, other>>

\* format!("{}", res)
Display ==
  /\ Fresh
  /\ call' = [op |-> "display", recv |-> res, out |-> Ok(fmt(res))]
  /\ steps' = steps + 1
  /\ UNCHANGED <<res, other>>

PairNext ==
  \/ HasIntegerScale
  \/ ScaleFactor
  \/ \E r \in PairRatios : CanFit(r)
  \/ \E h \in PairHeights, r \in PairRatios : FitsAspectRatio(h, r)
  \/ IntoVec2
  \/ IntoUVec2
  \/ IntoAspectRatio
  \/ Display

PairSpec == PairInit /\ [][PairNext]_vars

(***************************************************************************)
(* Properties                                                              *)
(***************************************************************************)

\* the receiver's aspect_ratio().ratio() of the last call (where it is defined)
RecvRatio == aspect_ratio(call.recv).val

\* C1 (as claimed): change_width(new_width, true) on a Fixed(r) resolution gives
\* width new_width, height new_width / r and mode Fixed(r) still; the source's
\* test has r360p(16:9).change_width(1280, true).height() == 720.  Stated for
\* receivers of non-zero height, where it fails already.
C1_ChangeWidthMaintainRecomputes ==
  (call.op = "change_width" /\ call.maintain /\ ~is_dynamic(call.recv.aspect_ratio)
     /\ ~IsZero(call.recv.height)) =>
    /\ call.out.tag = "ok"
    /\ FEq(res.width, call.width)
    /\ FEq(res.height, FDiv(call.width, call.recv.aspect_ratio.ar))
    /\ res.aspect_ratio = call.recv.aspect_ratio
    /\ (call.recv = r360p(SIXTEEN_NINE) /\ call.width = FromInt(1280)) =>
         FEq(res.height, FromInt(720))

\* C2 (as claimed): change_height(new_height, true) gives height new_height, width
\* new_height * r whether or not the width was recomputed, and the receiver's mode.
C2_ChangeHeightMaintainExact ==
  (call.op = "change_height" /\ call.maintain /\ call.out.tag = "ok") =>
    /\ FEq(res.height, call.height)
    /\ FEq(res.width, FMul(call.height, RecvRatio))
    /\ res.aspect_ratio = call.recv.aspect_ratio

\* C2 (amended): change_height(new_height, true) gives height new_height and the
\* receiver's mode; the width is new_height * r when width / new_height differs
\* from r, and otherwise the receiver's width, left as it was, for which
\* width / new_height == r; r360p(16:9).change_height(720, true).width() == 1280.
C2_ChangeHeightMaintain ==
  (call.op = "change_height" /\ call.maintain /\ call.out.tag = "ok") =>
    /\ res.height = call.height
    /\ res.aspect_ratio = call.recv.aspect_ratio
    /\ FNe(FDiv(call.recv.width, call.height), RecvRatio) =>
         res.width = FMul(call.height, RecvRatio)
    /\ FEq(FDiv(call.recv.width, call.height), RecvRatio) =>
         res.width = call.recv.width /\ FEq(FDiv(res.width, res.height), RecvRatio)
    /\ (call.recv = r360p(SIXTEEN_NINE) /\ call.height = FromInt(720)) =>
         FEq(res.width, FromInt(1280))

\* C2 witness: r360p(16:9).change_height(720, true) has returned, 1280 wide
C2_Witness ==
  /\ call.op = "change_height" /\ call.maintain
  /\ call.recv = r360p(SIXTEEN_NINE) /\ call.height = FromInt(720)
  /\ res.width = FromInt(1280)

\* C3: with maintain = false a mutator changes only the named dimension and
\* makes the mode Dynamic, so that aspect_ratio() of the result, where it
\* returns, is the result's width / height.
C3_NoMaintainDecouples ==
  /\ (call.op = "change_height" /\ ~call.maintain) =>
       /\ call.out = Ok(res)
       /\ res.height = call.height
       /\ res.width = call.recv.width
       /\ res.aspect_ratio = Dynamic
  /\ (call.op = "change_width" /\ ~call.maintain) =>
       /\ call.out = Ok(res)
       /\ res.width = call.width
       /\ res.height = call.recv.height
       /\ res.aspect_ratio = Dynamic
  /\ (call.op \in {"change_height", "change_width"} /\ ~call.maintain) =>
       aspect_ratio(res) \in {Panic, Ok(FDiv(res.width, res.height))}

\* C3 witness: r360p(16:9).change_height(720, false) is 640 x 720, Dynamic, and
\* its aspect ratio is 640 / 720, no longer 16:9
C3_Witness ==
  /\ call.op = "change_height" /\ ~call.maintain
  /\ call.recv = r360p(SIXTEEN_NINE) /\ call.height = FromInt(720)
  /\ res = new(FromInt(640), FromInt(720))
  /\ aspect_ratio(res) = Ok(FDiv(FromInt(640), FromInt(720)))
  /\ FNe(aspect_ratio(res).val, SIXTEEN_NINE)

\* C4: change_ratio(n) gives mode Fixed(n), width height * n and the receiver's
\* height; r360p(16:9).change_ratio(4:3) is 480 x 360, and 840 x 360 for 21:9.
C4_ChangeRatio ==
  (call.op = "change_ratio") =>
    /\ call.out = Ok(res)
    /\ res.aspect_ratio = Set(call.ratio)
    /\ res.height = call.recv.height
    /\ res.width = FMul(call.recv.height, call.ratio)
    /\ (call.recv = r360p(SIXTEEN_NINE) /\ call.ratio = FOUR_THREE) =>
         res.width = FromInt(480) /\ res.height = FromInt(360)
    /\ (call.recv = r360p(SIXTEEN_NINE) /\ call.ratio = ULTRAWIDE) =>
         res.width = FromInt(840) /\ res.height = FromInt(360)

\* C4 witness: a Dynamic 1280 x 720 changed to 4:3 is 960 x 720, Fixed(4:3)
C4_Witness ==
  /\ call.op = "change_ratio"
  /\ call.recv = new(FromInt(1280), FromInt(720)) /\ call.ratio = FOUR_THREE
  /\ res = Resolution(FromInt(960), FromInt(720), Set(FOUR_THREE))

\* the width / height ratio scale and scale_and_keep_aspect_ratio compute
ScaledRatio == FDiv(FMul(call.recv.width, call.scalar.x), FMul(call.recv.height, call.scalar.y))

\* the receiver of the last call is from_height(h, r) of its own height and ratio
RecvIsFromHeight ==
  /\ ~is_dynamic(call.recv.aspect_ratio)
  /\ call.recv = from_height(call.recv.height, call.recv.aspect_ratio.ar)

\* scale's general rule: width * s.x, height * s.y; Dynamic stays Dynamic, Fixed(r)
\* stays Fixed(r) if the ratio after the scale equals r and becomes Dynamic if not
ScaleRule ==
  /\ call.out = Ok(res)
  /\ res.width = FMul(call.recv.width, call.scalar.x)
  /\ res.height = FMul(call.recv.height, call.scalar.y)
  /\ res.aspect_ratio =
       IF is_dynamic(call.recv.aspect_ratio) THEN Dynamic
       ELSE IF FEq(ScaledRatio, call.recv.aspect_ratio.ar) THEN call.recv.aspect_ratio
       ELSE Dynamic

\* C5 (as claimed): scale follows its general rule, and consequently
\* from_height(h, r).scale(splat(k)) == from_height(k * h, r).  The consequence
\* is stated for non-zero h, where it fails already.
C5_ScaleOfFromHeightIsFromHeight ==
  (call.op = "scale") =>
    /\ ScaleRule
    /\ (RecvIsFromHeight /\ call.scalar.x = call.scalar.y /\ ~IsZero(call.recv.height)) =>
         ResEq(res, from_height(FMul(call.scalar.x, call.recv.height),
                                call.recv.aspect_ratio.ar))

\* C5 (amended): scale follows its general rule; from_height(h, r).scale(splat(k))
\* is (h * r) * k wide and h * k high, and equals from_height(k * h, r) exactly
\* when ((h * r) * k) / (h * k) == r and (h * r) * k == (k * h) * r in f32, as
\* for r360p(16:9).scale(splat(2)) == r720p(16:9); otherwise it differs,
\* e.g. from_height(600, 16:9) scaled by splat(1) is Dynamic.
C5_Scale ==
  (call.op = "scale") =>
    /\ ScaleRule
    /\ (RecvIsFromHeight /\ call.scalar.x = call.scalar.y) =>
         LET k == call.scalar.x
             h == call.recv.height
             r == call.recv.aspect_ratio.ar
         IN /\ res.width = FMul(FMul(h, r), k)
            /\ res.height = FMul(h, k)
            /\ ResEq(res, from_height(FMul(k, h), r)) <=>
                 /\ FEq(FDiv(FMul(FMul(h, r), k), FMul(h, k)), r)
                 /\ FEq(FMul(FMul(h, r), k), FMul(FMul(k, h), r))
    /\ (call.recv = r360p(SIXTEEN_NINE) /\ call.scalar = splat(FromInt(2))) =>
         ResEq(res, r720p(SIXTEEN_NINE))
    /\ (call.recv = from_height(FromInt(600), SIXTEEN_NINE)
          /\ call.scalar = splat(FromInt(1))) =>
         res.aspect_ratio = Dynamic

\* C5 witness: r360p(16:9).scale(splat(2)) has returned r720p(16:9)
C5_Witness ==
  /\ call.op = "scale"
  /\ call.recv = r360p(SIXTEEN_NINE) /\ call.scalar = splat(FromInt(2))
  /\ res = r720p(SIXTEEN_NINE)

\* C6: scale_and_keep_aspect_ratio(s), where the receiver's aspect_ratio() is
\* defined, returns None exactly when (width * s.x) / (height * s.y) differs from
\* it; otherwise Some of width * s.x, height * s.y and the receiver's mode, the
\* value scale(s) returns.
C6_ScaleAndKeep ==
  (call.op = "scale_and_keep_aspect_ratio" /\ call.out.tag # "panic") =>
    /\ call.out = None <=> FNe(ScaledRatio, RecvRatio)
    /\ call.out # None =>
         /\ call.out = Some(res)
         /\ res.width = FMul(call.recv.width, call.scalar.x)
         /\ res.height = FMul(call.recv.height, call.scalar.y)
         /\ res.aspect_ratio = call.recv.aspect_ratio
         /\ res = scale(call.recv, call.scalar)

\* C6 witness: r360p(16:9).scale_and_keep_aspect_ratio(splat(2)) has returned
\* Some(r720p(16:9))
C6_Witness ==
  /\ call.op = "scale_and_keep_aspect_ratio"
  /\ call.recv = r360p(SIXTEEN_NINE) /\ call.scalar = splat(FromInt(2))
  /\ call.out = Some(r720p(SIXTEEN_NINE))

\* C7 (as claimed): on every resolution reached from the constructors,
\* scale_and_keep_aspect_ratio with non-zero components succeeds only for an
\* isotropic scale (scalar.x == scalar.y).
C7_OnlyIsotropicSucceeds ==
  (call.op = "scale_and_keep_aspect_ratio" /\ call.out.tag = "some"
     /\ ~IsZero(call.scalar.x) /\ ~IsZero(call.scalar.y)) =>
    FEq(call.scalar.x, call.scalar.y)

\* x is a whole number: finite, and m * 2^e has no binary places
IsWholeNumber(x) ==
  /\ IsFinite(x)
  /\ \/ x.m = 0
     \/ x.e >= 0
     \/ 0 - x.e < MantBits /\ x.m % Pow2(0 - x.e) = 0

\* the aspect ratios of the two resolutions of a call (where they are defined)
TargetRatio == aspect_ratio(call.target).val

\* the larger and the smaller of the two heights of a call
LargerHeight ==
  IF FLt(call.recv.height, call.target.height) THEN call.target.height ELSE call.recv.height
SmallerHeight ==
  IF FLt(call.recv.height, call.target.height) THEN call.recv.height ELSE call.target.height

C9_ScaleFactorReciprocal ==
  (call.op = "scale_factor" /\ call.out.tag = "ok") =>
    /\ FNe(RecvRatio, TargetRatio) =>
         call.out.val = Vec2(FDiv(call.target.width, call.recv.width),
                             FDiv(call.target.height, call.recv.height))
    /\ FEq(RecvRatio, TargetRatio) =>
         /\ call.out.val = splat(FDiv(call.target.height, call.recv.height))
         /\ LET back == get_scale_factor(call.target, call.recv).val
            IN Vec2Eq(back, splat(back.x)) =>
                 Vec2Eq(call.out.val, splat(FDiv(FromInt(1), back.x)))

\* C9 (amended): a.scale_factor(b) is (b.width / a.width, b.height / a.height)
\* when the ratios differ and splat(b.height / a.height) when they are equal;
\* then b.scale_factor(a) is splat(a.height / b.height), and the two are
\* reciprocal exactly when b.height / a.height == 1 / (a.height / b.height) in
\* f32, as for 360p and 720p (splat(2) and splat(0.5)), and not for 480p and
\* 900p (1.875 against 1 / 0.53333336 = 1.8749999).
C9_ScaleFactor ==
  (call.op = "scale_factor" /\ call.out.tag = "ok") =>
    /\ FNe(RecvRatio, TargetRatio) =>
         call.out.val = Vec2(FDiv(call.target.width, call.recv.width),
                             FDiv(call.target.height, call.recv.height))
    /\ FEq(RecvRatio, TargetRatio) =>
         LET back == get_scale_factor(call.target, call.recv).val
         IN /\ call.out.val = splat(FDiv(call.target.height, call.recv.height))
            /\ back = splat(FDiv(call.recv.height, call.target.height))
            /\ Vec2Eq(call.out.val, splat(FDiv(FromInt(1), back.x))) <=>
                 FEq(FDiv(call.target.height, call.recv.height),
                     FDiv(FromInt(1), FDiv(call.recv.height, call.target.height)))
    /\ (call.recv = r360p(SIXTEEN_NINE) /\ call.target = r720p(SIXTEEN_NINE)) =>
         /\ call.out.val = splat(FromInt(2))
         /\ get_scale_factor(call.target, call.recv).val = splat(Scaled(1, -1))
    /\ (call.recv = r480p(FOUR_THREE) /\ call.target = from_height(FromInt(900), FOUR_THREE)) =>
         ~Vec2Eq(call.out.val,
                 splat(FDiv(FromInt(1), get_scale_factor(call.target, call.recv).val.x)))

\* C9 witness: r360p(16:9).scale_factor(r720p(16:9)) has returned splat(2)
C9_Witness ==
  /\ call.op = "scale_factor"
  /\ call.recv = r360p(SIXTEEN_NINE) /\ call.target = r720p(SIXTEEN_NINE)
  /\ call.out = Ok(splat(FromInt(2)))

\* C10: fits_aspect_ratio(h, ratio) is true iff h * ratio is a whole number (360
\* fits 16:9 and 4:3, 480 fits 4:3 and not 16:9); res.can_fit(ratio), which is
\* resolution_fits_aspect_ratio(res, ratio), is fits_aspect_ratio(res.height(),
\* ratio), whatever the width and the mode of res.
C10_FitsAspectRatio ==
  /\ (call.op = "fits_aspect_ratio") =>
       /\ call.out.val = IsWholeNumber(FMul(call.height, call.ratio))
       /\ (call.height = FromInt(360) /\ call.ratio \in {SIXTEEN_NINE, FOUR_THREE}) =>
            call.out.val
       /\ (call.height = FromInt(480) /\ call.ratio = FOUR_THREE) => call.out.val
       /\ (call.height = FromInt(480) /\ call.ratio = SIXTEEN_NINE) => ~call.out.val
  /\ (call.op = "can_fit") =>
       /\ call.out.val = fits_aspect_ratio(call.recv.height, call.ratio)
       /\ call.out.val = IsWholeNumber(FMul(call.recv.height, call.ratio))
       /\ \A w \in Widths, m \in {Dynamic, Set(SIXTEEN_NINE), Set(FOUR_THREE)} :
            call.out.val = can_fit(Resolution(w, call.recv.height, m), call.ratio)

\* C10 witness: a Dynamic 640 x 480 asked whether it can fit 4:3: yes, as
\* 480 * 4/3 is whole, although 640 * 4/3 is not
C10_Witness ==
  /\ call.op = "can_fit"
  /\ call.recv = new(FromInt(640), FromInt(480)) /\ call.ratio = FOUR_THREE
  /\ call.out = Ok(TRUE)
  /\ ~fits_aspect_ratio(call.recv.width, call.ratio)

\* the height a named constructor stands for
NamedHeight(op) ==
  CASE op = "r360p" -> 360 [] op = "r480p" -> 480 [] op = "r720p" -> 720
    [] op = "r1080p" -> 1080 [] op = "r1440p" -> 1440

NamedOps == {"r360p", "r480p", "r720p", "r1080p", "r1440p"}

\* C11: from_height(h, r) has height h, width the f32 product h * r and mode
\* Set(r), and aspect_ratio() returns r itself; r360p .. r1440p(r) equal
\* from_height(360 .. 1440, r).
C11_FromHeight ==
  /\ (steps = 0 /\ call.op = "from_height") =>
       /\ res.height = call.height
       /\ res.width = FMul(call.height, call.ratio)
       /\ res.aspect_ratio = Set(call.ratio)
       /\ aspect_ratio(res) = Ok(call.ratio)
  /\ (steps = 0 /\ call.op \in NamedOps) =>
       /\ res = from_height(FromInt(NamedHeight(call.op)), call.ratio)
       /\ res.height = FromInt(NamedHeight(call.op))
       /\ res.width = FMul(FromInt(NamedHeight(call.op)), call.ratio)
       /\ res.aspect_ratio = Set(call.ratio)
       /\ aspect_ratio(res) = Ok(call.ratio)
  /\ (call.op = "into_aspect_ratio" /\ call.recv.aspect_ratio # Dynamic) =>
       call.out = Ok(call.recv.aspect_ratio.ar)

\* from_height(600, 16:9) asked for its ratio: width / height is not 16:9 in
\* f32, and the answer is 16:9 all the same
C11_Witness ==
  /\ call.op = "into_aspect_ratio"
  /\ call.recv = from_height(FromInt(600), SIXTEEN_NINE)
  /\ call.recv.height = FromInt(600)
  /\ FNe(FDiv(call.recv.width, call.recv.height), SIXTEEN_NINE)
  /\ call.out = Ok(SIXTEEN_NINE)

\* a is non-negative (NaN is not)
NonNegative(a) == ~IsNaN(a) /\ (a.s = 0 \/ IsZero(a))

\* a is non-negative and at most u32::MAX
InU32Range(a) == NonNegative(a) /\ IsFinite(a) /\ (a.m = 0 \/ a.e + BitLen(a.m) <= 32)

\* u is the least integer not below the non-negative finite a = m * 2^e:
\* for e < 0 that is (m - 1) div 2^-e + 1; no u32 is one above u32::MAX
IsLeastIntegerNotBelow(u, a) ==
  IF a.m = 0 THEN u = U32(0, 0)
  ELSE IF a.e >= 0
  THEN /\ a.e <= 8
       /\ u.lo % Pow2(a.e) = 0
       /\ u.hi * Pow2(16 - a.e) + (u.lo \div Pow2(a.e)) = a.m
  ELSE IF 0 - a.e > 24 THEN u = U32(0, 1)
  ELSE /\ u.hi < 512
       /\ u.hi * 65536 + u.lo = ((a.m - 1) \div Pow2(0 - a.e)) + 1

\* the number a sequence of decimal digits denotes, as a u32
RECURSIVE DecimalValue(_)
DecimalValue(d) ==
  IF d = <<>> THEN U32(0, 0)
  ELSE LET v == DecimalValue(SubSeq(d, 1, Len(d) - 1))
           c == CHOOSE n \in 0..9 : DigitChar(n) = d[Len(d)]
           t == v.lo * 10 + c
       IN U32(v.hi * 10 + (t \div 65536), t % 65536)

\* d is the decimal numeral of u: digits only, no leading zero, value u
IsDecimalOf(d, u) ==
  /\ Len(d) \in 1..10
  /\ \A i \in 1..Len(d) : \E n \in 0..9 : DigitChar(n) = d[i]
  /\ Len(d) > 1 => d[1] # "0"
  /\ DecimalValue(d) = u

\* text is "<x> x <y>"
IsRendering(text, x, y) ==
  \E i \in 1..Len(text) :
    /\ IsDecimalOf(SubSeq(text, 1, i - 1), x)
    /\ i + 2 <= Len(text)
    /\ SubSeq(text, i, i + 2) = <<" ", "x", " ">>
    /\ IsDecimalOf(SubSeq(text, i + 3, Len(text)), y)

\* C12 as stated: for non-negative width and height each component of the
\* integer-pixel pair is the least integer not below the stored value.
C12_CeilOfNonNegative ==
  (call.op = "into_uvec2" /\ NonNegative(call.recv.width) /\ NonNegative(call.recv.height)) =>
    /\ IsLeastIntegerNotBelow(call.out.val.x, call.recv.width)
    /\ IsLeastIntegerNotBelow(call.out.val.y, call.recv.height)

\* C12: for width and height in [0, u32::MAX] each component of the pair is
\* the least integer not below the stored value, a non-negative value above
\* u32::MAX gives u32::MAX, from_height(240, 16:9) gives 427 x 240 and
\* r480p(16:9) gives 854 x 480, and the text is "<x> x <y>" of that pair.
C12_IntoUVec2 ==
  /\ call.op = "into_uvec2" =>
       /\ InU32Range(call.recv.width) =>
            IsLeastIntegerNotBelow(call.out.val.x, call.recv.width)
       /\ InU32Range(call.recv.height) =>
            IsLeastIntegerNotBelow(call.out.val.y, call.recv.height)
       /\ (NonNegative(call.recv.width) /\ ~InU32Range(call.recv.width)) =>
            call.out.val.x = U32_MAX
       /\ (NonNegative(call.recv.height) /\ ~InU32Range(call.recv.height)) =>
            call.out.val.y = U32_MAX
       /\ call.recv = from_height(FromInt(240), SIXTEEN_NINE) =>
            call.out.val = UVec2(U32(0, 427), U32(0, 240))
       /\ call.recv = r480p(SIXTEEN_NINE) =>
            call.out.val = UVec2(U32(0, 854), U32(0, 480))
  /\ call.op = "display" =>
       /\ IsRendering(call.out.val, UVec2_from(call.recv).x, UVec2_from(call.recv).y)
       /\ call.recv = from_height(FromInt(240), SIXTEEN_NINE) =>
            call.out.val = <<"4", "2", "7", " ", "x", " ", "2", "4", "0">>

\* from_height(240, 16:9), whose width 426.66666 is rounded up to 427
C12_Witness ==
  /\ call.op = "into_uvec2"
  /\ call.recv = from_height(FromInt(240), SIXTEEN_NINE)
  /\ ~IsZero(FRem1(call.recv.width))
  /\ call.out.val.x = U32(0, 427)

\* the resolution has no aspect ratio: it is Dynamic and try_new refuses its sides
RatioUndefined(r) ==
  /\ is_dynamic(r.aspect_ratio)
  /\ \/ IsZero(r.width) \/ IsZero(r.height)
     \/ ~IsFinite(r.width) \/ ~IsFinite(r.height)

\* C13 as stated: change_height, change_width, change_ratio and scale return a
\* value for every input, a Dynamic receiver with a zero side included.
C13_MutatorsTotal ==
  call.op \in {"change_height", "change_width", "change_ratio", "scale"} =>
    call.out.tag # "panic"

\* C13: aspect_ratio() fails exactly on a Dynamic resolution with a zero or
\* non-finite width or height, and exactly then so do the operations that call
\* it: change_height and change_width with maintain = true,
\* scale_and_keep_aspect_ratio, has_integer_scale and scale_factor (for either
\* resolution) and the conversion to AspectRatio; change_height and
\* change_width with maintain = false, change_ratio, scale, can_fit and the
\* conversions to Vec2, UVec2 and text return a value for every input.
C13_FailsWhereRatioUndefined ==
  /\ call.op \in {"change_height", "change_width"} =>
       (call.out = Panic <=> (call.maintain /\ RatioUndefined(call.recv)))
  /\ call.op = "scale_and_keep_aspect_ratio" =>
       (call.out = Panic <=> RatioUndefined(call.recv))
  /\ call.op \in {"change_ratio", "scale"} => call.out.tag = "ok"
  /\ call.op = "aspect_ratio" =>
       /\ call.out = Panic <=> RatioUndefined(call.recv)
       /\ AspectRatio_from(call.recv) = call.out
       /\ has_integer_scale(call.recv, other) = Panic
            <=> (call.out = Panic \/ RatioUndefined(other))
       /\ get_scale_factor(call.recv, other) = Panic
            <=> (call.out = Panic \/ RatioUndefined(other))
       /\ \A r \in Ratios : can_fit(call.recv, r) \in BOOLEAN
       /\ Vec2_from(call.recv) = Vec2(call.recv.width, call.recv.height)
       /\ UVec2_from(call.recv).x \in [hi : 0..65535, lo : 0..65535]
       /\ UVec2_from(call.recv).y \in [hi : 0..65535, lo : 0..65535]
       /\ Len(fmt(call.recv)) >= 5

\* new(640, 0).change_height(h, true) and the like: a Dynamic receiver of zero
\* height, maintain = true, and no value returned
C13_Witness ==
  /\ call.op = "change_height"
  /\ call.maintain
  /\ is_dynamic(call.recv.aspect_ratio)
  /\ IsZero(call.recv.height)
  /\ ~IsZero(call.recv.width)
  /\ call.out = Panic

\* C14 as stated, for a resolution with non-zero sides: whenever the mode is
\* Set(r), the width is height * r or, where the product rounds otherwise,
\* width / height is r (either reading of "aspect_ratio() equals the actual
\* width / height").
C14_FixedNeverStale ==
  (~is_dynamic(res.aspect_ratio) /\ ~IsZero(res.width) /\ ~IsZero(res.height)) =>
    \/ FEq(res.width, FMul(res.height, res.aspect_ratio.ar))
    \/ FEq(FDiv(res.width, res.height), res.aspect_ratio.ar)


====
